---- MODULE Spec2Model ----
(***************************************************************************)
(* A model of src/main.rs, the Rust-FFI-declarations to Zig translator.    *)
(*                                                                         *)
(* The syntax tree (syn's Item, Type, Expr, UseTree, TokenTree) is a       *)
(* record with a tag k naming the enum variant and the fields the code     *)
(* reads.  Emitted text is modelled as TLA+ strings built the way the      *)
(* format strings build them; standard output is the sequence out of       *)
(* lines, each tagged with the position of the item being translated when  *)
(* it was written.                                                         *)
(***************************************************************************)
EXTENDS Integers, Sequences, FiniteSets, TLC

VARIABLES
    items,             \* syntax.items: the parsed program
    idx,               \* position of the for loop of try_main (1-based)
    status,            \* "running", "done" (try_main returned Ok) or "aborted"
    out,               \* the lines printed to standard output so far
    toplevel_imports,  \* cx.toplevel_imports
    arg,               \* argument of a direct call of a pure function
    ret                \* what that call returned

vars == <<items, idx, status, out, toplevel_imports, arg, ret>>

(***************************************************************************)
(* Bounds of the model.                                                    *)
(***************************************************************************)
MaxItems == 2       \* longest program
MaxPtrDepth == 3    \* deepest pointer chain given to ty_to_zig directly
MaxNodes == 5       \* most nodes of a use tree given to expand_use_tree directly

(***************************************************************************)
(* Result<T, Error> and the two Error variants the translators raise.      *)
(***************************************************************************)
Ok(v) == [ok |-> TRUE, val |-> v]
Err(e) == [ok |-> FALSE, err |-> e]
Nyi == [k |-> "Nyi"]
Unhandled(item_name) == [k |-> "Unhandled", name |-> item_name]

(***************************************************************************)
(* Constructors of the syntax tree.                                        *)
(***************************************************************************)
Seg(id) == [ident |-> id, arguments |-> "None"]
TyPath(segs) == [k |-> "Path", segments |-> segs]
TyName(id) == TyPath(<<Seg(id)>>)
TyPtr(c, elem) == [k |-> "Ptr", const_token |-> c, elem |-> elem]
TyArray == [k |-> "Array"]
TyGeneric == TyPath(<<[ident |-> "Vec", arguments |-> "AngleBracketed"]>>)
TyQualified == TyPath(<<Seg("ctypes"), Seg("c_int")>>)

UsePathT(id, t) == [k |-> "Path", ident |-> id, tree |-> t]
UseName(id) == [k |-> "Name", ident |-> id]
UseGroup(ts) == [k |-> "Group", items |-> ts]
UseGlob == [k |-> "Glob"]
UseRename(id, r) == [k |-> "Rename", ident |-> id, rename |-> r]

(***************************************************************************)
(* path_as_single_ident                                                    *)
(***************************************************************************)
Some(v) == [some |-> TRUE, val |-> v]
None == [some |-> FALSE]

path_as_single_ident(path) ==
    IF Len(path.segments) = 1 /\ path.segments[1].arguments = "None"
    THEN Some(path.segments[1].ident)
    ELSE None

(***************************************************************************)
(* ty_to_zig                                                               *)
(***************************************************************************)
\* the match on ident.as_str(): Zig doesn't have c char types
zig_ident(ident) ==
    CASE ident = "c_uchar" -> "u8"
      [] ident \in {"c_char", "c_schar"} -> "i8"
      [] ident = "__uint64" -> "u64"
      [] ident = "__int64" -> "i64"
      [] OTHER -> ident

mut_str_inverted(p) == IF p.const_token THEN "" ELSE "const "

mut_str(p) == IF p.const_token THEN "const " ELSE ""

RECURSIVE ty_to_zig(_)
ty_to_zig(ty) ==
    CASE ty.k = "Path" ->
            IF Len(ty.segments) = 1 /\ ty.segments[1].arguments = "None"
            THEN Ok(zig_ident(ty.segments[1].ident))
            ELSE Err(Nyi)
      [] ty.k = "Ptr" ->
            LET r == ty_to_zig(ty.elem)
            IN  IF r.ok THEN Ok("?*" \o mut_str(ty) \o r.val) ELSE r
      [] OTHER -> Err(Nyi)

ret_ty_to_zig(r) ==
    IF r.k = "Type" THEN ty_to_zig(r.ty) ELSE Ok("")

vis_to_zig(v) == IF v = "Public" THEN "pub " ELSE ""

(***************************************************************************)
(* expr_to_zig                                                             *)
(***************************************************************************)
expr_to_zig_any_lit(e) ==
    IF e.k = "Lit" THEN e.lit.text ELSE "???"

expr_to_zig(e) ==
    IF e.k = "Lit" /\ e.lit.k = "Int" THEN e.lit.text ELSE "???"

(***************************************************************************)
(* expand_use_tree.  expand_rec returns the Result together with b, the    *)
(* vector it pushes the paths to.                                          *)
(***************************************************************************)
group_prefix_reset(prefix) == <<>>

\* the prefix a group hands to each of its items
group_prefix(prefix) == prefix

RECURSIVE expand_rec(_, _, _)
RECURSIVE expand_group(_, _, _, _)
expand_rec(u, prefix, b) ==
    CASE u.k = "Path" -> expand_rec(u.tree, Append(prefix, u.ident), b)
      [] u.k = "Name" -> [ok |-> TRUE, b |-> Append(b, Append(prefix, u.ident))]
      [] u.k = "Group" -> expand_group(u.items, 1, group_prefix(prefix), b)
      [] OTHER -> [ok |-> FALSE, err |-> Nyi, b |-> b]

\* for tree in &g.items { expand_rec(tree, prefix, b)?; }
expand_group(trees, i, prefix, b) ==
    IF i > Len(trees) THEN [ok |-> TRUE, b |-> b]
    ELSE LET r == expand_rec(trees[i], prefix, b)
         IN  IF r.ok THEN expand_group(trees, i + 1, prefix, r.b) ELSE r

expand_use_tree(u) ==
    LET r == expand_rec(u, <<>>, <<>>)
    IN  IF r.ok THEN Ok(r.b) ELSE Err(r.err)

(***************************************************************************)
(* What a translator hands back: the lines it printed, in order, and how   *)
(* it ended: Ok, an Error, or a panic (an unwrap() of None or Err).        *)
(***************************************************************************)
ResOk == [k |-> "Ok"]
Panic == [k |-> "Panic"]
Done(lines, res) == [lines |-> lines, res |-> res]

RECURSIVE join(_, _)
join(path, sep) ==
    IF Len(path) = 0 THEN ""
    ELSE IF Len(path) = 1 THEN path[1]
    ELSE path[1] \o sep \o join(Tail(path), sep)

(***************************************************************************)
(* use_to_zig                                                              *)
(***************************************************************************)
is_module_always(toplevel) == TRUE

\* if toplevel != "ctypes"
is_module(toplevel) == toplevel # "ctypes"

import_missing_always(toplevel, imports) == TRUE

\* if !cx.toplevel_imports.contains(toplevel)
import_missing(toplevel, imports) == toplevel \notin imports

import_decl(toplevel) == "const " \o toplevel \o " = @import(\"" \o toplevel \o ".zig\");"

alias_decl(vis, path) ==
    vis \o "const " \o path[Len(path)] \o " = " \o join(path, ".") \o ";"

RECURSIVE use_paths(_, _, _, _, _)
use_paths(paths, i, vis, imports, lines) ==
    IF i > Len(paths) THEN [lines |-> lines, imports |-> imports]
    ELSE LET path == paths[i]
             toplevel == path[1]
         IN  IF is_module(toplevel)
             THEN LET l1 == IF import_missing(toplevel, imports)
                            THEN lines \o <<"", import_decl(toplevel)>>
                            ELSE lines
                  IN  use_paths(paths, i + 1, vis, imports \cup {toplevel},
                                Append(l1, alias_decl(vis, path)))
             ELSE use_paths(paths, i + 1, vis, imports, lines)

use_to_zig(u, imports) ==
    LET e == expand_use_tree(u.tree)
    IN  IF ~e.ok THEN [lines |-> <<>>, res |-> e.err, imports |-> imports]
        ELSE LET r == use_paths(e.val, 1, vis_to_zig(u.vis), imports, <<>>)
             IN  [lines |-> r.lines, res |-> ResOk, imports |-> r.imports]

(***************************************************************************)
(* const_to_zig, type_to_zig                                               *)
(***************************************************************************)
const_to_zig(c) ==
    Done(<<vis_to_zig(c.vis) \o "const " \o c.ident \o " = " \o expr_to_zig(c.expr) \o ";">>,
         ResOk)

\* the ? inside the arguments of println! returns before anything is printed
type_to_zig(t) ==
    LET r == ty_to_zig(t.ty)
    IN  IF r.ok
        THEN Done(<<vis_to_zig(t.vis) \o "const " \o t.ident \o " = " \o r.val \o ";">>, ResOk)
        ELSE Done(<<>>, r.err)

(***************************************************************************)
(* fn_arg_to_zig, foreign_mod_to_zig                                       *)
(***************************************************************************)
link_name == "user32"

fn_arg_to_zig(a) ==
    IF a.k = "Typed"
    THEN LET ident == CASE a.pat.k = "Ident" -> a.pat.ident
                        [] a.pat.k = "Wild" -> "_"
                        [] OTHER -> ""
             r == ty_to_zig(a.ty)
         IN  IF r.ok THEN Done(<<"    " \o ident \o ": " \o r.val \o ",">>, ResOk)
             ELSE Done(<<>>, r.err)
    ELSE Done(<<>>, ResOk)

RECURSIVE fn_args(_, _, _)
fn_args(inputs, i, lines) ==
    IF i > Len(inputs) THEN Done(lines, ResOk)
    ELSE LET r == fn_arg_to_zig(inputs[i])
         IN  IF r.res.k = "Ok" THEN fn_args(inputs, i + 1, lines \o r.lines)
             ELSE Done(lines \o r.lines, r.res)

foreign_fn(f) ==
    LET head == <<vis_to_zig(f.vis) \o "extern \"" \o link_name \o "\" fn " \o f.ident \o " (">>
        a == fn_args(f.inputs, 1, head)
        r == ret_ty_to_zig(f.output)
    IN  IF a.res.k # "Ok" THEN a
        ELSE IF r.ok THEN Done(a.lines \o <<") callconv(.Stdcall) " \o r.val \o ";">>, ResOk)
        ELSE Done(a.lines, r.err)

RECURSIVE foreign_items(_, _, _)
foreign_items(fitems, i, lines) ==
    IF i > Len(fitems) THEN Done(lines, ResOk)
    ELSE LET r == IF fitems[i].k = "Fn" THEN foreign_fn(fitems[i])
                  ELSE Done(<<"{:?} " \o fitems[i].k>>, ResOk)
         IN  IF r.res.k = "Ok" THEN foreign_items(fitems, i + 1, lines \o r.lines)
             ELSE Done(lines \o r.lines, r.res)

foreign_mod_to_zig(fm) == foreign_items(fm.items, 1, <<>>)

(***************************************************************************)
(* struct_macro_to_zig, declare_handle_to_zig, macro_to_zig, fn_to_zig     *)
(***************************************************************************)
\* syn::parse2::<ItemStruct>: the tokens `struct NAME { fields }` or
\* `struct NAME ( fields )`, the group standing for the fields it parses to
parse2_ItemStruct(toks) ==
    IF /\ Len(toks) = 3
       /\ toks[1].k = "Ident" /\ toks[1].text = "struct"
       /\ toks[2].k = "Ident"
       /\ toks[3].k = "Group"
    THEN Ok([ident |-> toks[2].text, fields |-> toks[3].fields])
    ELSE Err("syn::Error")

RECURSIVE struct_fields(_, _, _)
struct_fields(fields, i, lines) ==
    IF i > Len(fields) THEN Done(lines, ResOk)
    ELSE IF ~fields[i].ident.some THEN Done(lines, Panic)
    ELSE LET r == ty_to_zig(fields[i].ty)
         IN  IF r.ok
             THEN struct_fields(fields, i + 1,
                                Append(lines, "    " \o fields[i].ident.val \o ": " \o r.val \o ","))
             ELSE Done(lines, r.err)

struct_macro_to_zig(toks) ==
    LET s == parse2_ItemStruct(toks)
    IN  IF ~s.ok THEN Done(<<>>, Panic)
        ELSE LET f == struct_fields(s.val.fields, 1,
                                    <<"pub const " \o s.val.ident \o " = extern struct {">>)
             IN  IF f.res.k = "Ok" THEN Done(Append(f.lines, "};"), ResOk) ELSE f

declare_handle_to_zig(toks) ==
    IF Len(toks) < 1 THEN Done(<<>>, Nyi)
    ELSE IF Len(toks) < 3 THEN Done(<<>>, Nyi)
    ELSE IF toks[1].k = "Ident" /\ toks[3].k = "Ident"
    THEN Done(<<"pub const " \o toks[3].text \o " = @Type(.Opaque);",
                "pub const " \o toks[1].text \o " = ?*" \o toks[3].text \o ";">>, ResOk)
    ELSE Done(<<>>, ResOk)

macro_to_zig(m) ==
    LET id == path_as_single_ident(m.path)
    IN  IF id.some
        THEN CASE id.val = "STRUCT" -> struct_macro_to_zig(m.tokens)
               [] id.val = "DECLARE_HANDLE" -> declare_handle_to_zig(m.tokens)
               [] OTHER -> Done(<<>>, Unhandled(id.val))
        ELSE Done(<<>>, Nyi)

fn_to_zig(f) == Done(<<>>, Unhandled(f.ident))

(***************************************************************************)
(* The programs of the model: every sequence of at most MaxItems of the    *)
(* items below, which cover each Item variant and each way its translator  *)
(* can end.                                                                *)
(***************************************************************************)
ItemUse(vis, t) == [k |-> "Use", vis |-> vis, tree |-> t]
ItemType(vis, id, ty) == [k |-> "Type", vis |-> vis, ident |-> id, ty |-> ty]
ItemConst(vis, id, e) == [k |-> "Const", vis |-> vis, ident |-> id, expr |-> e]
ItemForeignMod(fs) == [k |-> "ForeignMod", items |-> fs]
ItemMacro(segs, toks) == [k |-> "Macro", path |-> [segments |-> segs], tokens |-> toks]
ItemFn(id) == [k |-> "Fn", ident |-> id]
ItemMod == [k |-> "Mod"]

LitInt(text) == [k |-> "Lit", lit |-> [k |-> "Int", text |-> text]]
LitStr(text) == [k |-> "Lit", lit |-> [k |-> "Str", text |-> text]]
ExprUnary(op, e) == [k |-> "Unary", op |-> op, expr |-> e]
ExprPath(id) == [k |-> "Path", ident |-> id]

ForeignFn(vis, id, inputs, output) ==
    [k |-> "Fn", vis |-> vis, ident |-> id, inputs |-> inputs, output |-> output]
ForeignStatic == [k |-> "Static"]
Typed(pat, ty) == [k |-> "Typed", pat |-> pat, ty |-> ty]
PatIdent(id) == [k |-> "Ident", ident |-> id]
PatWild == [k |-> "Wild"]
RetType(ty) == [k |-> "Type", ty |-> ty]
RetDefault == [k |-> "Default"]

TokIdent(text) == [k |-> "Ident", text |-> text]
TokPunct(text) == [k |-> "Punct", text |-> text]
TokLiteral(text) == [k |-> "Literal", text |-> text]
TokGroup(fields) == [k |-> "Group", fields |-> fields]
Field(id, ty) == [ident |-> Some(id), ty |-> ty]
FieldUnnamed(ty) == [ident |-> None, ty |-> ty]
StructToks(id, fields) == <<TokIdent("struct"), TokIdent(id), TokGroup(fields)>>

UseItems ==
    { ItemUse("Public", UsePathT("um", UseName("HWND"))),
      ItemUse("Inherited", UsePathT("um", UseGroup(<<UseName("HWND"), UseName("UINT")>>))),
      ItemUse("Inherited", UseGroup(<<UsePathT("ctypes", UseName("c_int")),
                                      UsePathT("shared", UsePathT("minwindef", UseName("UINT")))>>)),
      ItemUse("Public", UsePathT("ctypes", UseName("c_char"))),
      ItemUse("Inherited", UsePathT("um", UseGlob)),
      ItemUse("Inherited", UsePathT("shared", UseGroup(<<UseName("BOOL"),
                                                         UseRename("UINT", "U")>>))) }

TypeItems ==
    { ItemType("Public", "BYTE", TyName("c_uchar")),
      ItemType("Inherited", "LPCSTR", TyPtr(TRUE, TyName("c_char"))),
      ItemType("Public", "BUF", TyArray),
      ItemType("Inherited", "PVEC", TyPtr(FALSE, TyGeneric)) }

ConstItems ==
    { ItemConst("Public", "WM_NULL", LitInt("0x0000")),
      ItemConst("Inherited", "MINUS", ExprUnary("-", LitInt("1"))),
      ItemConst("Public", "NAME", LitStr("\"user32\"")),
      ItemConst("Inherited", "ALIAS", ExprPath("WM_NULL")) }

ForeignItems ==
    { ItemForeignMod(<<ForeignFn("Public", "GetDC",
                                 <<Typed(PatIdent("hWnd"), TyName("HWND")),
                                   Typed(PatWild, TyPtr(FALSE, TyName("c_char")))>>,
                                 RetType(TyName("HDC")))>>),
      ItemForeignMod(<<ForeignFn("Public", "Fill",
                                 <<Typed(PatIdent("n"), TyName("UINT")),
                                   Typed(PatIdent("buf"), TyArray)>>,
                                 RetDefault)>>),
      ItemForeignMod(<<ForeignStatic,
                       ForeignFn("Inherited", "Beep", <<>>, RetDefault),
                       ForeignFn("Public", "Name", <<Typed(PatIdent("n"), TyName("UINT"))>>,
                                 RetType(TyQualified))>>) }

MacroItems ==
    { ItemMacro(<<Seg("STRUCT")>>,
                StructToks("POINT", <<Field("a", TyName("c_uchar")),
                                      Field("b", TyPtr(TRUE, TyName("c_char")))>>)),
      ItemMacro(<<Seg("STRUCT")>>,
                StructToks("BAD", <<Field("a", TyName("c_uchar")), Field("b", TyArray)>>)),
      ItemMacro(<<Seg("STRUCT")>>, StructToks("PAIR", <<FieldUnnamed(TyName("c_int"))>>)),
      ItemMacro(<<Seg("STRUCT")>>, <<TokIdent("POINT"), TokPunct(",")>>),
      ItemMacro(<<Seg("DECLARE_HANDLE")>>,
                <<TokIdent("HWND"), TokPunct(","), TokIdent("HWND__")>>),
      ItemMacro(<<Seg("DECLARE_HANDLE")>>,
                <<TokLiteral("1"), TokPunct(","), TokIdent("HWND__")>>),
      ItemMacro(<<Seg("DECLARE_HANDLE")>>,
                <<TokIdent("HWND"), TokPunct(","), TokPunct("-")>>),
      ItemMacro(<<Seg("DECLARE_HANDLE")>>, <<TokIdent("HWND")>>),
      ItemMacro(<<Seg("DECLARE_HANDLE")>>, <<>>),
      ItemMacro(<<Seg("ENUM")>>, <<TokIdent("X")>>),
      ItemMacro(<<Seg("macros"), Seg("STRUCT")>>, StructToks("POINT", <<>>)) }

FnItems == { ItemFn("main") }

OtherItems == { ItemMod }

ItemSet ==
    UseItems \cup TypeItems \cup ConstItems \cup ForeignItems \cup MacroItems
        \cup FnItems \cup OtherItems

Programs == UNION { [1..n -> ItemSet] : n \in 0..MaxItems }

NoCall == [k |-> "None"]

(***************************************************************************)
(* try_main from the construction of cx on, and wrap_item_to_zig.          *)
(***************************************************************************)
Init ==
    /\ items \in Programs
    /\ idx = 1
    /\ status = "running"
    /\ out = <<>>
    /\ toplevel_imports = {}
    /\ arg = NoCall
    /\ ret = NoCall

println_prepend(o, i, lines) == [j \in 1..Len(lines) |-> [item |-> i, text |-> lines[j]]] \o o

\* println!: the lines go to the end of standard output
println(o, i, lines) == o \o [j \in 1..Len(lines) |-> [item |-> i, text |-> lines[j]]]

soft_never(res) == FALSE

\* the two arms of wrap_item_to_zig that return Ok(())
soft(res) == res.k \in {"Unhandled", "Nyi"}

placeholder_generic(res) == "// Item not yet implemented"

placeholder(res) ==
    IF res.k = "Unhandled" THEN "// Unhandled item: " \o res.name
    ELSE "// Item not yet implemented"

\* what wrap_item_to_zig does with r, the lines, result and module set that
\* item_to_zig left
wrap_item_to_zig(r) ==
    /\ toplevel_imports' = r.imports
    /\ IF r.res.k = "Ok"
       THEN /\ out' = println(out, idx, r.lines)
            /\ idx' = idx + 1
            /\ status' = status
       ELSE IF soft(r.res)
       THEN /\ out' = println(out, idx, Append(r.lines, placeholder(r.res)))
            /\ idx' = idx + 1
            /\ status' = status
       ELSE /\ out' = println(out, idx, r.lines)
            /\ idx' = idx
            /\ status' = "aborted"
    /\ UNCHANGED <<items, arg, ret>>

\* the for loop of try_main hands the next item to wrap_item_to_zig
AtItem == status = "running" /\ idx <= Len(items)

WithCx(r, imports) == [lines |-> r.lines, res |-> r.res, imports |-> imports]

\* one action per arm of the match of item_to_zig
TranslateUse ==
    /\ AtItem
    /\ items[idx].k = "Use"
    /\ wrap_item_to_zig(use_to_zig(items[idx], toplevel_imports))

TranslateType ==
    /\ AtItem
    /\ items[idx].k = "Type"
    /\ wrap_item_to_zig(WithCx(type_to_zig(items[idx]), toplevel_imports))

TranslateConst ==
    /\ AtItem
    /\ items[idx].k = "Const"
    /\ wrap_item_to_zig(WithCx(const_to_zig(items[idx]), toplevel_imports))

TranslateForeignMod ==
    /\ AtItem
    /\ items[idx].k = "ForeignMod"
    /\ wrap_item_to_zig(WithCx(foreign_mod_to_zig(items[idx]), toplevel_imports))

TranslateMacro ==
    /\ AtItem
    /\ items[idx].k = "Macro"
    /\ wrap_item_to_zig(WithCx(macro_to_zig(items[idx]), toplevel_imports))

TranslateFn ==
    /\ AtItem
    /\ items[idx].k = "Fn"
    /\ wrap_item_to_zig(WithCx(fn_to_zig(items[idx]), toplevel_imports))

\* any other item: println!("{:#?}", item)
TranslateOther ==
    /\ AtItem
    /\ items[idx].k \notin {"Use", "Type", "Const", "ForeignMod", "Macro", "Fn"}
    /\ wrap_item_to_zig(WithCx(Done(<<"{:#?} " \o items[idx].k>>, ResOk), toplevel_imports))

\* the for loop is over: try_main returns Ok(())
Finish ==
    /\ status = "running"
    /\ idx > Len(items)
    /\ status' = "done"
    /\ UNCHANGED <<items, idx, out, toplevel_imports, arg, ret>>

Next ==
    \/ TranslateUse
    \/ TranslateType
    \/ TranslateConst
    \/ TranslateForeignMod
    \/ TranslateMacro
    \/ TranslateFn
    \/ TranslateOther
    \/ Finish

Spec == Init /\ [][Next]_vars

(***************************************************************************)
(* Direct calls of the two pure functions, on every type that is a chain   *)
(* of at most MaxPtrDepth pointers and every use tree of at most MaxNodes  *)
(* nodes.                                                                  *)
(***************************************************************************)
ScalarNames == {"c_uchar", "c_char", "c_schar", "__uint64", "__int64", "c_int", "HWND"}

BaseTypes == {TyName(n) : n \in ScalarNames} \cup {TyArray, TyGeneric, TyQualified}

RECURSIVE TypesOfDepth(_)
TypesOfDepth(d) ==
    IF d = 0 THEN BaseTypes
    ELSE LET s == TypesOfDepth(d - 1)
         IN  s \cup {TyPtr(c, t) : c \in BOOLEAN, t \in s}

TreeIdents == {"a", "b"}

RECURSIVE TreesOfSize(_)
RECURSIVE ForestsOfSize(_)
TreesOfSize(n) ==
    IF n = 0 THEN {}
    ELSE (IF n = 1 THEN {UseName(i) : i \in TreeIdents} \cup {UseGlob} ELSE {})
         \cup {UsePathT(i, t) : i \in TreeIdents, t \in TreesOfSize(n - 1)}
         \cup {UseGroup(f) : f \in ForestsOfSize(n - 1)}

ForestsOfSize(m) ==
    IF m = 0 THEN {<<>>}
    ELSE UNION { {<<t>> \o f : t \in TreesOfSize(k), f \in ForestsOfSize(m - k)} : k \in 1..m }

Calls ==
    {[fn |-> "ty_to_zig", val |-> t] : t \in TypesOfDepth(MaxPtrDepth)}
        \cup {[fn |-> "expand_use_tree", val |-> t] : t \in UNION {TreesOfSize(n) : n \in 1..MaxNodes}}

InitCalls ==
    /\ items = <<>>
    /\ idx = 1
    /\ status = "done"
    /\ out = <<>>
    /\ toplevel_imports = {}
    /\ arg \in Calls
    /\ ret = NoCall

Call_ty_to_zig ==
    /\ arg.fn = "ty_to_zig"
    /\ ret = NoCall
    /\ ret' = [k |-> "Ret", val |-> ty_to_zig(arg.val)]
    /\ UNCHANGED <<items, idx, status, out, toplevel_imports, arg>>

Call_expand_use_tree ==
    /\ arg.fn = "expand_use_tree"
    /\ ret = NoCall
    /\ ret' = [k |-> "Ret", val |-> expand_use_tree(arg.val)]
    /\ UNCHANGED <<items, idx, status, out, toplevel_imports, arg>>

NextCalls ==
    \/ Call_ty_to_zig
    \/ Call_expand_use_tree

SpecCalls == InitCalls /\ [][NextCalls]_vars

(***************************************************************************)
(* What the properties are stated with, read off the input alone.          *)
(***************************************************************************)
\* the texts of the lines standard output holds for item i, in order
LinesOf(i) ==
    LET mine == SelectSeq(out, LAMBDA l : l.item = i)
    IN  [j \in 1..Len(mine) |-> mine[j].text]

Texts == {out[j].text : j \in 1..Len(out)}

CountText(text) == Cardinality({j \in 1..Len(out) : out[j].text = text})

IsSingleIdent(path) == Len(path.segments) = 1 /\ path.segments[1].arguments = "None"

\* a chain of pointers ending in a single-identifier named scalar
RECURSIVE IsScalarChain(_)
IsScalarChain(ty) ==
    \/ ty.k = "Path" /\ IsSingleIdent(ty)
    \/ ty.k = "Ptr" /\ IsScalarChain(ty.elem)

\* a use tree of path segments, leaf names and brace groups only
RECURSIVE IsPlain(_)
IsPlain(t) ==
    \/ t.k = "Name"
    \/ t.k = "Path" /\ IsPlain(t.tree)
    \/ t.k = "Group" /\ \A j \in 1..Len(t.items) : IsPlain(t.items[j])

RECURSIVE NumLeaves(_)
RECURSIVE NumLeavesUpTo(_, _)
NumLeaves(t) ==
    CASE t.k = "Name" -> 1
      [] t.k = "Path" -> NumLeaves(t.tree)
      [] t.k = "Group" -> NumLeavesUpTo(t.items, Len(t.items))
      [] OTHER -> 0

\* the leaves of the first n trees of a group
NumLeavesUpTo(ts, n) ==
    IF n = 0 THEN 0 ELSE NumLeavesUpTo(ts, n - 1) + NumLeaves(ts[n])

\* the segments from the root down to the i-th leaf (left to right), then its name
RECURSIVE LeafPath(_, _)
LeafPath(t, i) ==
    CASE t.k = "Name" -> <<t.ident>>
      [] t.k = "Path" -> <<t.ident>> \o LeafPath(t.tree, i)
      [] t.k = "Group" ->
            LET c == CHOOSE c \in 1..Len(t.items) :
                        NumLeavesUpTo(t.items, c - 1) < i /\ i <= NumLeavesUpTo(t.items, c)
            IN  LeafPath(t.items[c], i - NumLeavesUpTo(t.items, c - 1))

LeafPaths(t) == [i \in 1..NumLeaves(t) |-> LeafPath(t, i)]

Sentinel == "ctypes"

\* the use items whose tree expands, among the items the driver is past
ImportedItems == {i \in 1..(idx - 1) : items[i].k = "Use" /\ IsPlain(items[i].tree)}

\* the top-level module names imported so far, the sentinel aside
ImportedModules ==
    {p[1] : p \in UNION {{LeafPath(items[i].tree, n) : n \in 1..NumLeaves(items[i].tree)}
                          : i \in ImportedItems}} \ {Sentinel}

\* every top-level module name the program mentions
MentionedModules ==
    UNION {{LeafPath(items[i].tree, n)[1] : n \in 1..NumLeaves(items[i].tree)}
            : i \in {i \in 1..Len(items) : items[i].k = "Use" /\ IsPlain(items[i].tree)}}

ModuleImportLine(m) == "const " \o m \o " = @import(\"" \o m \o ".zig\");"

VisText(vis) == IF vis = "Public" THEN "pub " ELSE ""

NyiLine == "// Item not yet implemented"

UnhandledLine(name) == "// Unhandled item: " \o name

(***************************************************************************)
(* C1: for every top-level module name other than the sentinel, standard   *)
(* output holds exactly one module-import declaration of it if a path      *)
(* starting with it has been imported, and none otherwise.                 *)
(***************************************************************************)
C1_OneImportPerModule ==
    \A m \in MentionedModules \ {Sentinel} :
        CountText(ModuleImportLine(m)) = IF m \in ImportedModules THEN 1 ELSE 0

\* two import items, three symbols of the same module, both translated
C1_Witness ==
    /\ idx = 3
    /\ items[1] = ItemUse("Public", UsePathT("um", UseName("HWND")))
    /\ items[2] = ItemUse("Inherited", UsePathT("um", UseGroup(<<UseName("HWND"), UseName("UINT")>>)))
    /\ Len(out) = 5

(***************************************************************************)
(* C10: within an import item every expanded path that starts with the     *)
(* sentinel 'ctypes' emits no line and records nothing, and every other    *)
(* path emits exactly one alias line carrying the item's visibility, in    *)
(* expansion order, and records its top-level module name.                 *)
(***************************************************************************)
AliasLine(vis, path) ==
    VisText(vis) \o "const " \o path[Len(path)] \o " = " \o join(path, ".") \o ";"

\* the lines of item i that are neither blank nor a module-import declaration
AliasLinesOf(i) ==
    SelectSeq(LinesOf(i),
              LAMBDA l : l # "" /\ \A m \in MentionedModules : l # ModuleImportLine(m))

ExpectedAliasLines(u) ==
    LET real == SelectSeq(LeafPaths(u.tree), LAMBDA p : p[1] # Sentinel)
    IN  [j \in 1..Len(real) |-> AliasLine(u.vis, real[j])]

C10_SentinelSkipped ==
    /\ \A i \in ImportedItems : AliasLinesOf(i) = ExpectedAliasLines(items[i])
    /\ toplevel_imports = ImportedModules
    /\ ModuleImportLine(Sentinel) \notin Texts

\* an item with a sentinel path and a real one, translated
C10_Witness ==
    /\ idx > 1
    /\ items[1] = ItemUse("Inherited",
                          UseGroup(<<UsePathT("ctypes", UseName("c_int")),
                                     UsePathT("shared", UsePathT("minwindef", UseName("UINT")))>>))
    /\ LinesOf(1) = <<"", "const shared = @import(\"shared.zig\");",
                      "const UINT = shared.minwindef.UINT;">>
    /\ toplevel_imports = {"shared"}

(***************************************************************************)
(* C9: a constant item never fails and never aborts the run: it emits the  *)
(* single line '<visibility>const <name> = <value>;', the value being the  *)
(* literal's text for an integer literal and '???' for anything else, and  *)
(* the driver goes on to the next item.                                    *)
(***************************************************************************)
IsIntLiteral(e) == e.k = "Lit" /\ e.lit.k = "Int"

ConstLine(c) ==
    VisText(c.vis) \o "const " \o c.ident \o " = "
        \o (IF IsIntLiteral(c.expr) THEN c.expr.lit.text ELSE "???") \o ";"

C9_ConstNeverFails ==
    \A i \in 1..Len(items) :
        items[i].k = "Const" =>
            /\ i < idx => LinesOf(i) = <<ConstLine(items[i])>>
            /\ ~(status = "aborted" /\ idx = i)
            /\ (status = "running" /\ idx = i) => ENABLED TranslateConst

\* an integer literal and a string literal, both translated
C9_Witness ==
    /\ idx = 3
    /\ items[1] = ItemConst("Public", "WM_NULL", LitInt("0x0000"))
    /\ items[2] = ItemConst("Public", "NAME", LitStr("\"user32\""))
    /\ LinesOf(2) = <<"pub const NAME = ???;">>

(***************************************************************************)
(* C4: standard output is append-only and ordered by source position: a    *)
(* step only adds lines at the end, whatever the outcome of the item, and  *)
(* the lines of an earlier item come before those of a later one.          *)
(***************************************************************************)
IsPrefix(s, t) == Len(s) <= Len(t) /\ \A j \in 1..Len(s) : s[j] = t[j]

InItemOrder(o) == \A i, j \in 1..Len(o) : i < j => o[i].item <= o[j].item

C4_AppendOnlyOrdered == [][IsPrefix(out, out') /\ InItemOrder(out')]_vars

\* the second item fails after printing, the lines of the first are still there
C4_Witness ==
    /\ idx = 3
    /\ LinesOf(1) = <<"pub const BYTE = u8;">>
    /\ LinesOf(2) = <<"pub const BAD = extern struct {", "    a: u8,", NyiLine>>

(***************************************************************************)
(* Items with a type that cannot be translated, or an import tree that     *)
(* cannot be expanded.                                                     *)
(***************************************************************************)
IsMacroNamed(item, name) ==
    item.k = "Macro" /\ IsSingleIdent(item.path) /\ item.path.segments[1].ident = name

ParsesAsStruct(toks) ==
    /\ Len(toks) = 3
    /\ toks[1] = TokIdent("struct")
    /\ toks[2].k = "Ident"
    /\ toks[3].k = "Group"

FnHasBadType(f) ==
    \/ \E j \in 1..Len(f.inputs) : f.inputs[j].k = "Typed" /\ ~IsScalarChain(f.inputs[j].ty)
    \/ f.output.k = "Type" /\ ~IsScalarChain(f.output.ty)

HasBadType(item) ==
    \/ item.k = "Type" /\ ~IsScalarChain(item.ty)
    \/ /\ item.k = "ForeignMod"
       /\ \E j \in 1..Len(item.items) : item.items[j].k = "Fn" /\ FnHasBadType(item.items[j])
    \/ /\ IsMacroNamed(item, "STRUCT")
       /\ ParsesAsStruct(item.tokens)
       /\ \E j \in 1..Len(item.tokens[3].fields) :
             /\ ~IsScalarChain(item.tokens[3].fields[j].ty)
             /\ \A n \in 1..j : item.tokens[3].fields[n].ident.some

HasBadSyntax(item) == item.k = "Use" /\ ~IsPlain(item.tree)

RaisesUnsupported(item) == HasBadType(item) \/ HasBadSyntax(item)

(***************************************************************************)
(* C2, as claimed: an unsupported type or an unsupported import tree       *)
(* aborts the whole run at once, so the driver never gets past such an     *)
(* item.                                                                   *)
(***************************************************************************)
C2_Original ==
    \A i \in 1..Len(items) : RaisesUnsupported(items[i]) => idx <= i

(***************************************************************************)
(* C2, amended: an unsupported type or an unsupported import tree is the   *)
(* 'not yet implemented' signal, a soft failure: the run does not abort at *)
(* that item; the driver prints the placeholder comment after what the     *)
(* item had printed and goes on to the next item.                          *)
(***************************************************************************)
C2_UnsupportedIsSoft ==
    \A i \in 1..Len(items) :
        RaisesUnsupported(items[i]) =>
            /\ ~(status = "aborted" /\ idx = i)
            /\ (status = "running" /\ idx = i) => ENABLED Next
            /\ i < idx => /\ LinesOf(i) # <<>>
                          /\ LinesOf(i)[Len(LinesOf(i))] = NyiLine

\* an unsupported alias type, then an item translated after it
C2_Witness ==
    /\ idx = 3
    /\ items[1] = ItemType("Public", "BUF", TyArray)
    /\ LinesOf(1) = <<NyiLine>>
    /\ LinesOf(2) = <<"pub const WM_NULL = 0x0000;">>

(***************************************************************************)
(* C3, as claimed: every macro call other than the single identifiers      *)
(* STRUCT and DECLARE_HANDLE, and every plain function, yields exactly one *)
(* line, a placeholder comment naming the macro or the function.           *)
(***************************************************************************)
IsSkipped(item) ==
    \/ item.k = "Fn"
    \/ item.k = "Macro" /\ ~IsMacroNamed(item, "STRUCT") /\ ~IsMacroNamed(item, "DECLARE_HANDLE")

SkippedName(item) ==
    IF item.k = "Fn" THEN item.ident
    ELSE join([j \in 1..Len(item.path.segments) |-> item.path.segments[j].ident], "::")

C3_Original ==
    \A i \in 1..Len(items) :
        IsSkipped(items[i]) =>
            /\ ~(status = "aborted" /\ idx = i)
            /\ i < idx => LinesOf(i) = <<UnhandledLine(SkippedName(items[i]))>>

(***************************************************************************)
(* C3, amended: such an item never aborts the run and yields exactly one   *)
(* placeholder comment line, after which the driver continues; the line    *)
(* names the item when it is a function or a macro called by a single      *)
(* identifier, and is the generic 'not yet implemented' comment, without   *)
(* the name, when the macro is called by a qualified path.                 *)
(***************************************************************************)
C3_SkippedItemPlaceholder ==
    \A i \in 1..Len(items) :
        IsSkipped(items[i]) =>
            /\ ~(status = "aborted" /\ idx = i)
            /\ (status = "running" /\ idx = i) => ENABLED Next
            /\ i < idx =>
                 LinesOf(i) = IF items[i].k = "Fn" \/ IsSingleIdent(items[i].path)
                              THEN <<UnhandledLine(SkippedName(items[i]))>>
                              ELSE <<NyiLine>>

\* an unknown macro and a function, both skipped with their names
C3_Witness ==
    /\ idx = 3
    /\ items[1] = ItemMacro(<<Seg("ENUM")>>, <<TokIdent("X")>>)
    /\ items[2] = ItemFn("main")
    /\ LinesOf(1) = <<"// Unhandled item: ENUM">>
    /\ LinesOf(2) = <<"// Unhandled item: main">>

(***************************************************************************)
(* C5: an item with a type that cannot be translated fails before any of   *)
(* its declaration text is printed: all that standard output holds for it  *)
(* is the driver's placeholder comment, never a record or function header  *)
(* left without its closing line.                                          *)
(***************************************************************************)
C5_NoPartialDeclaration ==
    \A i \in 1..(idx - 1) : HasBadType(items[i]) => LinesOf(i) = <<NyiLine>>

(***************************************************************************)
(* C8: a DECLARE_HANDLE call prints its two declarations if and only if    *)
(* the first and third tokens are plain identifiers; otherwise it fails    *)
(* softly and the driver prints one placeholder comment line for it.       *)
(***************************************************************************)
IsIdentAt(toks, n) == n <= Len(toks) /\ toks[n].k = "Ident"

C8_DeclareHandle ==
    \A i \in 1..(idx - 1) :
        IsMacroNamed(items[i], "DECLARE_HANDLE") =>
            LinesOf(i) =
                IF IsIdentAt(items[i].tokens, 1) /\ IsIdentAt(items[i].tokens, 3)
                THEN <<"pub const " \o items[i].tokens[3].text \o " = @Type(.Opaque);",
                       "pub const " \o items[i].tokens[1].text \o " = ?*"
                           \o items[i].tokens[3].text \o ";">>
                ELSE <<NyiLine>>

(***************************************************************************)
(* C6, as claimed: for a tree of path segments, leaf names and groups,     *)
(* expand_use_tree returns one path per leaf, in leaf order, each the      *)
(* segments down to the leaf followed by its name, and the paths are       *)
(* pairwise distinct.                                                      *)
(***************************************************************************)
OnePathPerLeaf(t, r) ==
    /\ r.ok
    /\ Len(r.val) = NumLeaves(t)
    /\ \A i \in 1..Len(r.val) : r.val[i] = LeafPath(t, i)

Expanded == arg # NoCall /\ arg.fn = "expand_use_tree" /\ ret # NoCall /\ IsPlain(arg.val)

C6_Original ==
    Expanded =>
        /\ OnePathPerLeaf(arg.val, ret.val)
        /\ \A i, j \in 1..Len(ret.val.val) : i # j => ret.val.val[i] # ret.val.val[j]

(***************************************************************************)
(* C6, amended: expand_use_tree returns one path per leaf (N leaves give   *)
(* exactly N paths, in left-to-right leaf order), each the segments from   *)
(* the root to that leaf followed by the leaf name; the paths are distinct *)
(* only where the leaves are: a name repeated in a group gives the same    *)
(* path twice.                                                             *)
(***************************************************************************)
C6_OnePathPerLeaf ==
    Expanded =>
        /\ OnePathPerLeaf(arg.val, ret.val)
        /\ \A i, j \in 1..Len(ret.val.val) :
              (ret.val.val[i] = ret.val.val[j]) = (LeafPath(arg.val, i) = LeafPath(arg.val, j))
        /\ (\A i \in 1..Len(ret.val.val) : Len(ret.val.val[i]) >= 1)

\* use a::{b::a, b}: a group below a segment, leaves at two depths
C6_Witness ==
    /\ Expanded
    /\ arg.val = UsePathT("a", UseGroup(<<UsePathT("b", UseName("a")), UseName("b")>>))
    /\ ret.val = Ok(<<<<"a", "b", "a">>, <<"a", "b">>>>)

(***************************************************************************)
(* C7: for a chain of k >= 0 pointers ending in a single-identifier named  *)
(* scalar, ty_to_zig succeeds and returns, outermost pointer first, '?*'   *)
(* per level, followed by 'const ' exactly when that level is const, and   *)
(* then the scalar's image under the rename table.                         *)
(***************************************************************************)
RenameTable ==
    [n \in {"c_uchar", "c_char", "c_schar", "__uint64", "__int64"} |->
        CASE n = "c_uchar" -> "u8"
          [] n = "c_char" -> "i8"
          [] n = "c_schar" -> "i8"
          [] n = "__uint64" -> "u64"
          [] n = "__int64" -> "i64"]

ScalarImage(n) == IF n \in DOMAIN RenameTable THEN RenameTable[n] ELSE n

\* the const flags of the pointer levels, outermost first
RECURSIVE ConstFlags(_)
ConstFlags(ty) == IF ty.k = "Ptr" THEN <<ty.const_token>> \o ConstFlags(ty.elem) ELSE <<>>

RECURSIVE ChainScalar(_)
ChainScalar(ty) == IF ty.k = "Ptr" THEN ChainScalar(ty.elem) ELSE ty.segments[1].ident

\* the markers of levels n..Len(flags), built from the innermost level outwards
RECURSIVE Markers(_, _, _)
Markers(flags, n, acc) ==
    IF n = 0 THEN acc
    ELSE Markers(flags, n - 1, (IF flags[n] THEN "?*const " ELSE "?*") \o acc)

Translated == arg # NoCall /\ arg.fn = "ty_to_zig" /\ ret # NoCall /\ IsScalarChain(arg.val)

C7_PointerChain ==
    Translated =>
        ret.val = Ok(Markers(ConstFlags(arg.val), Len(ConstFlags(arg.val)),
                             ScalarImage(ChainScalar(arg.val))))

\* *const *mut c_schar
C7_Witness ==
    /\ Translated
    /\ arg.val = TyPtr(TRUE, TyPtr(FALSE, TyName("c_schar")))
    /\ ret.val = Ok("?*const ?*i8")

====
